---- MODULE Spec2Model ----
(***************************************************************************)
(* md2pdf.py: the fence-masking / math-substitution pipeline               *)
(* (_protect_fenced_code, BLOCK_MATH_RE / INLINE_MATH_RE substitution,     *)
(* _restore_fenced_code), the process-wide _math_cache and the driver      *)
(* convert_md_to_pdf.                                                      *)
(*                                                                         *)
(* A text is a sequence of characters.  The characters that the code       *)
(* distinguishes are "$", "\", newline, blank, and the two fence symbols;  *)
(* a fence symbol (three backticks / three tildes) is kept as one unit, as *)
(* are a placeholder key, an HTML entity and the constant parts of the     *)
(* generated <img> markup: none of them contains "$", "\" or a newline, so *)
(* the regular expressions see each of them as one ordinary character.     *)
(*                                                                         *)
(* One step of the model is one iteration of the line loop of              *)
(* _protect_fenced_code, one replacement of Pattern.sub, or one call of    *)
(* the functions after them.  The variables last_call, last_match,         *)
(* raised_key and invocations record history and influence no step.        *)
(***************************************************************************)
EXTENDS Naturals, Sequences, FiniteSets, TLC

\* ------------------------------------------------------------- bounds
MaxMathLen == 5
MaxDollarLen == 8
MaxLines == 5
MaxProcessLines == 3
MaxCalls == 3

\* ------------------------------------------------------------- characters
DOLLAR == "$"
BACKSLASH == "\\"
NL == "\n"
SP == " "
\* BT stands for the three-backtick fence symbol (a TLA+ string cannot hold a backtick).
BT == "<bt3>"
TL == "~~~"

\* What \s, str.lstrip and str.strip remove, among the characters above.
Whitespace == {SP, NL}

NoFence == ""
NoKey == ""
NoResult == <<"None">>

BlockFontSize == 16
InlineFontSize == 12

\* ------------------------------------------------------------- sequences
RECURSIVE Join(_)
Join(parts) ==
    IF parts = <<>> THEN <<>> ELSE Head(parts) \o Join(Tail(parts))

RECURSIVE LStrip(_)
LStrip(s) ==
    IF s # <<>> /\ Head(s) \in Whitespace THEN LStrip(Tail(s)) ELSE s

RECURSIVE RStrip(_)
RStrip(s) ==
    IF s # <<>> /\ s[Len(s)] \in Whitespace
    THEN RStrip(SubSeq(s, 1, Len(s) - 1))
    ELSE s

Strip(s) == RStrip(LStrip(s))

Min(S) == CHOOSE x \in S : \A y \in S : x <= y

\* str.splitlines(keepends=True): every line keeps its terminator; the text
\* after the last terminator, if any, is a last line without one.
RECURSIVE SplitFrom(_, _, _)
SplitFrom(text, i, cur) ==
    IF i > Len(text)
    THEN IF cur = <<>> THEN <<>> ELSE <<cur>>
    ELSE IF text[i] = NL
         THEN <<Append(cur, NL)>> \o SplitFrom(text, i + 1, <<>>)
         ELSE SplitFrom(text, i + 1, Append(cur, text[i]))

SplitLines(text) == SplitFrom(text, 1, <<>>)

\* ------------------------------------------------------------- fences
\* _FENCE_RE.match(line).group(2): the fence symbol a line starts with after
\* leading whitespace, or NoFence.
FenceMatch(line) ==
    LET rest == LStrip(line)
    IN  IF rest # <<>> /\ rest[1] \in {BT, TL} THEN rest[1] ELSE NoFence

\* The closing test accepting either fence symbol instead of the active one.
ClosesAnyFence(line, marker) ==
    FenceMatch(line) # NoFence

\* line.lstrip().startswith(fence)
ClosesFence(line, marker) ==
    LET rest == LStrip(line)
    IN  rest # <<>> /\ rest[1] = marker

Placeholder(n) == "@@FENCED_CODE_BLOCK_" \o ToString(n) \o "@@"

\* blocks[k] = v on an insertion-ordered dict, kept as a sequence of pairs.
DictSet(d, k, v) ==
    IF \E i \in 1..Len(d) : d[i][1] = k
    THEN [i \in 1..Len(d) |-> IF d[i][1] = k THEN <<k, v>> ELSE d[i]]
    ELSE Append(d, <<k, v>>)

\* str.replace(k, v): every occurrence of the key is replaced by the stored text.
RECURSIVE Replace(_, _, _)
Replace(text, k, v) ==
    IF text = <<>> THEN <<>>
    ELSE (IF Head(text) = k THEN v ELSE <<Head(text)>>) \o Replace(Tail(text), k, v)

RECURSIVE RestoreFrom(_, _, _)
RestoreFrom(text, d, i) ==
    IF i > Len(d) THEN text
    ELSE RestoreFrom(Replace(text, d[i][1], d[i][2]), d, i + 1)

RestoreFencedCode(text, d) == RestoreFrom(text, d, 1)

\* ------------------------------------------------------------- math spans
\* A match: the span start..end of the text, its group 1 being from..to.
\* start = 0 stands for "no match".
NoMatch == [start |-> 0, from |-> 0, to |-> 0, end |-> 0]

\* BLOCK_MATH_RE = \$\$(.+?)\$\$ with DOTALL, tried at position s: group 1 is
\* the shortest non-empty text up to the next "$$".
BlockMatchAt(text, s) ==
    IF s + 1 <= Len(text) /\ text[s] = DOLLAR /\ text[s + 1] = DOLLAR
    THEN LET closers == {k \in (s + 3)..(Len(text) - 1) :
                            text[k] = DOLLAR /\ text[k + 1] = DOLLAR}
         IN  IF closers = {} THEN NoMatch
             ELSE [start |-> s, from |-> s + 2, to |-> Min(closers) - 1,
                   end |-> Min(closers) + 1]
    ELSE NoMatch

\* The lookbehind left out.
NeverEscaped(text, i) == TRUE

\* The lookbehind (?<!\\) at position i: the character before i is no backslash.
NotEscaped(text, i) ==
    ~(i > 1 /\ text[i - 1] = BACKSLASH)

\* INLINE_MATH_RE without the lookahead (?!\$) after the opening "$".
InlineMatchAtNoLookahead(text, s) ==
    IF text[s] = DOLLAR /\ NotEscaped(text, s)
    THEN LET closers == {k \in (s + 2)..Len(text) :
                            /\ text[k] = DOLLAR
                            /\ NotEscaped(text, k)
                            /\ \A j \in (s + 1)..(k - 1) : text[j] # NL}
         IN  IF closers = {} THEN NoMatch
             ELSE [start |-> s, from |-> s + 1, to |-> Min(closers) - 1,
                   end |-> Min(closers)]
    ELSE NoMatch

\* INLINE_MATH_RE = (?<!\\)\$(?!\$)([^\n]+?)(?<!\\)\$ tried at position s:
\* group 1 is the shortest non-empty newline-free text up to a "$" that no
\* backslash precedes.
InlineMatchAt(text, s) ==
    IF /\ text[s] = DOLLAR
       /\ NotEscaped(text, s)
       /\ ~(s + 1 <= Len(text) /\ text[s + 1] = DOLLAR)
    THEN LET closers == {k \in (s + 2)..Len(text) :
                            /\ text[k] = DOLLAR
                            /\ NotEscaped(text, k)
                            /\ \A j \in (s + 1)..(k - 1) : text[j] # NL}
         IN  IF closers = {} THEN NoMatch
             ELSE [start |-> s, from |-> s + 1, to |-> Min(closers) - 1,
                   end |-> Min(closers)]
    ELSE NoMatch

MatchAt(phase, text, s) ==
    IF phase = "block" THEN BlockMatchAt(text, s) ELSE InlineMatchAt(text, s)

\* Pattern.sub scans left to right: the next match is the one at the least
\* position >= pos where the pattern matches.
Search(phase, text, pos) ==
    LET starts == {s \in pos..Len(text) : MatchAt(phase, text, s).start # 0}
    IN  IF starts = {} THEN NoMatch ELSE MatchAt(phase, text, Min(starts))

FontSize(phase) == IF phase = "block" THEN BlockFontSize ELSE InlineFontSize

\* html.escape(tex, quote=True)
EscapeChar(c) ==
    CASE c = "&" -> "&amp;"
      [] c = "<" -> "&lt;"
      [] c = ">" -> "&gt;"
      [] c = "\"" -> "&quot;"
      [] c = "'" -> "&#x27;"
      [] OTHER -> c

HtmlEscape(tex) == [i \in 1..Len(tex) |-> EscapeChar(tex[i])]

BlockOpen(src) ==
    "<div class=\"math-block\"><img class=\"math-display\" src=\"" \o src \o "\" alt=\""
BlockClose == "\"></div>"
InlineOpen(src) == "<img class=\"math-inline\" src=\"" \o src \o "\" alt=\""
InlineClose == "\">"

\* The replacement text built by repl_block / repl_inline.
Markup(phase, src, tex) ==
    IF phase = "block"
    THEN <<NL, BlockOpen(src)>> \o HtmlEscape(tex) \o <<BlockClose, NL>>
    ELSE <<InlineOpen(src)>> \o HtmlEscape(tex) \o <<InlineClose>>

\* ------------------------------------------------------------- the cache
\* The renderer (mathtext.math_to_image, then base64) is an external
\* collaborator: an invocation either raises or yields an image; the n-th image
\* it produces is Uri(n), so two invocations never yield the same reference.
RendererOutcomes == {"ok", "raise"}
Uri(n) == "data:image/svg+xml;base64," \o ToString(n)

NoEntry == ""

CachePut(cache, k, v) ==
    [x \in DOMAIN cache \cup {k} |-> IF x = k THEN v ELSE cache[x]]

\* _tex_to_svg_data_uri without the cache lookup.
TexToSvgDataUriNoLookup(cache, k, outcome, n) ==
    IF outcome = "raise"
    THEN [raised |-> TRUE, uri |-> NoEntry, cache |-> cache, invoked |-> TRUE]
    ELSE [raised |-> FALSE, uri |-> Uri(n), cache |-> CachePut(cache, k, Uri(n)),
          invoked |-> TRUE]

\* _tex_to_svg_data_uri reserving the cache entry before it renders.
TexToSvgDataUriStoreFirst(cache, k, outcome, n) ==
    IF k \in DOMAIN cache
    THEN [raised |-> FALSE, uri |-> cache[k], cache |-> cache, invoked |-> FALSE]
    ELSE IF outcome = "raise"
         THEN [raised |-> TRUE, uri |-> NoEntry,
               cache |-> CachePut(cache, k, NoEntry), invoked |-> TRUE]
         ELSE [raised |-> FALSE, uri |-> Uri(n),
               cache |-> CachePut(cache, k, Uri(n)), invoked |-> TRUE]

\* _tex_to_svg_data_uri(tex, fontsize) with k = (tex, fontsize): what it
\* returns or raises, the cache it leaves, and whether it invoked the renderer.
\* outcome is the renderer's behaviour if invoked, n the number of the image.
TexToSvgDataUri(cache, k, outcome, n) ==
    IF k \in DOMAIN cache
    THEN [raised |-> FALSE, uri |-> cache[k], cache |-> cache, invoked |-> FALSE]
    ELSE IF outcome = "raise"
         THEN [raised |-> TRUE, uri |-> NoEntry, cache |-> cache, invoked |-> TRUE]
         ELSE [raised |-> FALSE, uri |-> Uri(n),
               cache |-> CachePut(cache, k, Uri(n)), invoked |-> TRUE]

\* ------------------------------------------------------------- inputs
BoundedSeq(S, n) == UNION {[1..k -> S] : k \in 0..n}

\* Texts without fences: every text of "$", "\", a letter, "<" and newline.
MathAlphabet == {DOLLAR, BACKSLASH, "a", "<", NL}
MathTexts == BoundedSeq(MathAlphabet, MaxMathLen)

\* Longer one-line texts dense in "$".
DollarTexts == BoundedSeq({DOLLAR, "a"}, MaxDollarLen)

\* Texts made of lines: fence lines of both symbols (one indented), math lines.
FenceLineContents ==
    {<<BT>>, <<SP, TL>>, <<DOLLAR, DOLLAR>>, <<DOLLAR, "a", DOLLAR>>}

\* Lines for the conversions of one process: the same expression inline and as a
\* block, and a fence line.
ProcessLineContents ==
    {<<BT>>, <<DOLLAR, "a", DOLLAR>>, <<DOLLAR, DOLLAR, "a", DOLLAR, DOLLAR>>}

\* The lines joined, each with its newline; the last one only if terminated.
LinesText(contents, terminated) ==
    Join([i \in 1..Len(contents) |->
            IF i < Len(contents) \/ terminated
            THEN Append(contents[i], NL) ELSE contents[i]])

LineTexts(contents, n) ==
    {LinesText(ls, t) : ls \in BoundedSeq(contents, n), t \in BOOLEAN}

\* What one conversion may be given, and how many conversions one process runs.
Texts(sc) ==
    IF sc = "process"
    THEN {LinesText(ls, TRUE) : ls \in BoundedSeq(ProcessLineContents, MaxProcessLines)}
    ELSE MathTexts \cup DollarTexts \cup LineTexts(FenceLineContents, MaxLines)

CallLimit(sc) == IF sc = "process" THEN MaxCalls ELSE 1

\* ------------------------------------------------------------- state
VARIABLES
    scope,        \* which inputs this process is given (fixed)
    calls,        \* conversions started so far
    pc,           \* where the current conversion stands
    md_text,      \* convert_md_to_pdf: md_content as read from the input file
    lines, li,    \* _protect_fenced_code: the lines and the loop position
    out, blocks, in_fence, fence, buf, key, idx,
    protected,    \* _render_math_in_markdown: the text being rewritten
    pos, acc,     \* Pattern.sub: scan position and the text built so far
    math_cache,   \* _math_cache
    images,       \* images the renderer has produced so far
    invocations,  \* history: renderer invocations that succeeded, per key
    last_call,    \* history: the last return of _tex_to_svg_data_uri in this conversion
    last_match,   \* history: the span replaced by the last step of the current pass
    raised_key,   \* history: the key whose rendering raised in this conversion
    result,       \* what _render_math_in_markdown returned
    pdf_written   \* whether write_pdf ran for the current conversion

vars == <<scope, calls, pc, md_text, lines, li, out, blocks, in_fence, fence, buf,
          key, idx, protected, pos, acc, math_cache, images, invocations,
          last_call, last_match, raised_key, result, pdf_written>>

protectVars == <<lines, li, out, blocks, in_fence, fence, buf, key, idx>>
subVars == <<protected, pos, acc>>
cacheVars == <<math_cache, images, invocations, last_call, raised_key>>

EmptyCache == [k \in {} |-> NoEntry]
NoCacheKey == <<<<>>, 0>>
NoCall == [key |-> NoCacheKey, uri |-> NoEntry, invoked |-> FALSE]

Init0 ==
    /\ calls = 0
    /\ pc = "idle"
    /\ md_text = <<>>
    /\ lines = <<>> /\ li = 1
    /\ out = <<>> /\ blocks = <<>> /\ in_fence = FALSE /\ fence = NoFence
    /\ buf = <<>> /\ key = NoKey /\ idx = 0
    /\ protected = <<>> /\ pos = 1 /\ acc = <<>>
    /\ math_cache = EmptyCache
    /\ images = 0
    /\ invocations = [k \in {} |-> 0]
    /\ last_call = NoCall
    /\ last_match = NoMatch
    /\ raised_key = NoCacheKey
    /\ result = NoResult
    /\ pdf_written = FALSE

Init == Init0 /\ scope = "single"
InitProcess == Init0 /\ scope = "process"

\* convert_md_to_pdf is called: the file is read and _render_math_in_markdown
\* enters _protect_fenced_code.
Start ==
    /\ pc \in {"idle", "done", "raised"}
    /\ calls < CallLimit(scope)
    /\ \E text \in Texts(scope) :
        /\ md_text' = text
        /\ lines' = SplitLines(text)
    /\ calls' = calls + 1
    /\ pc' = "protect"
    /\ li' = 1
    /\ out' = <<>> /\ blocks' = <<>> /\ in_fence' = FALSE /\ fence' = NoFence
    /\ buf' = <<>> /\ key' = NoKey /\ idx' = 0
    /\ protected' = <<>> /\ pos' = 1 /\ acc' = <<>>
    /\ last_match' = NoMatch /\ last_call' = NoCall /\ raised_key' = NoCacheKey
    /\ result' = NoResult
    /\ pdf_written' = FALSE
    /\ UNCHANGED <<scope, math_cache, images, invocations>>

\* for line in lines, not in_fence, the line opens a fence.
ProtectOpen ==
    /\ pc = "protect" /\ li <= Len(lines)
    /\ ~in_fence
    /\ FenceMatch(lines[li]) # NoFence
    /\ in_fence' = TRUE
    /\ fence' = FenceMatch(lines[li])
    /\ buf' = <<lines[li]>>
    /\ key' = Placeholder(idx)
    /\ idx' = idx + 1
    /\ li' = li + 1
    /\ UNCHANGED <<scope, calls, pc, md_text, lines, out, blocks, subVars,
                   cacheVars, last_match, result, pdf_written>>

\* for line in lines, not in_fence, an ordinary line.
ProtectPass ==
    /\ pc = "protect" /\ li <= Len(lines)
    /\ ~in_fence
    /\ FenceMatch(lines[li]) = NoFence
    /\ out' = Append(out, lines[li])
    /\ li' = li + 1
    /\ UNCHANGED <<scope, calls, pc, md_text, lines, blocks, in_fence, fence, buf,
                   key, idx, subVars, cacheVars, last_match, result, pdf_written>>

\* for line in lines, in_fence, the line does not close the fence.
ProtectInterior ==
    /\ pc = "protect" /\ li <= Len(lines)
    /\ in_fence
    /\ ~ClosesFence(lines[li], fence)
    /\ buf' = Append(buf, lines[li])
    /\ li' = li + 1
    /\ UNCHANGED <<scope, calls, pc, md_text, lines, out, blocks, in_fence, fence,
                   key, idx, subVars, cacheVars, last_match, result, pdf_written>>

\* for line in lines, in_fence, the line closes the fence.
ProtectClose ==
    /\ pc = "protect" /\ li <= Len(lines)
    /\ in_fence
    /\ ClosesFence(lines[li], fence)
    /\ in_fence' = FALSE
    /\ blocks' = DictSet(blocks, key, Join(Append(buf, lines[li])))
    /\ out' = Append(out, <<key, NL>>)
    /\ buf' = <<>>
    /\ fence' = NoFence
    /\ key' = NoKey
    /\ li' = li + 1
    /\ UNCHANGED <<scope, calls, pc, md_text, lines, idx, subVars, cacheVars,
                   last_match, result, pdf_written>>

\* The loop is over: an unclosed fence is kept as it is, the output is joined
\* and BLOCK_MATH_RE.sub starts on it.
ProtectEnd ==
    /\ pc = "protect" /\ li > Len(lines)
    /\ out' = IF in_fence /\ buf # <<>> THEN out \o buf ELSE out
    /\ protected' = Join(out')
    /\ pos' = 1 /\ acc' = <<>>
    /\ pc' = "block"
    /\ UNCHANGED <<scope, calls, md_text, lines, li, blocks, in_fence, fence, buf,
                   key, idx, cacheVars, last_match, result, pdf_written>>

\* One replacement of Pattern.sub(repl, protected): the next span is found, its
\* group is stripped, _tex_to_svg_data_uri returns and the markup is emitted.
SubReplace(phase) ==
    /\ pc = phase
    /\ LET m == Search(phase, protected, pos)
           tex == Strip(SubSeq(protected, m.from, m.to))
           k == <<tex, FontSize(phase)>>
       IN  /\ m.start # 0
           /\ \E outcome \in RendererOutcomes :
                LET r == TexToSvgDataUri(math_cache, k, outcome, images + 1)
                IN  /\ ~r.raised
                    /\ acc' = acc \o SubSeq(protected, pos, m.start - 1)
                                  \o Markup(phase, r.uri, tex)
                    /\ pos' = m.end + 1
                    /\ math_cache' = r.cache
                    /\ images' = IF r.invoked THEN images + 1 ELSE images
                    /\ invocations' =
                         IF r.invoked
                         THEN [x \in DOMAIN invocations \cup {k} |->
                                 IF x = k
                                 THEN (IF k \in DOMAIN invocations
                                       THEN invocations[k] + 1 ELSE 1)
                                 ELSE invocations[x]]
                         ELSE invocations
                    /\ last_call' = [key |-> k, uri |-> r.uri, invoked |-> r.invoked]
                    /\ last_match' = m
    /\ UNCHANGED <<scope, calls, pc, md_text, protectVars, protected, raised_key,
                   result, pdf_written>>

\* The renderer raises inside repl_block / repl_inline: nothing catches it in
\* _render_math_in_markdown or convert_md_to_pdf.
SubRaise(phase) ==
    /\ pc = phase
    /\ LET m == Search(phase, protected, pos)
           tex == Strip(SubSeq(protected, m.from, m.to))
           k == <<tex, FontSize(phase)>>
       IN  /\ m.start # 0
           /\ \E outcome \in RendererOutcomes :
                LET r == TexToSvgDataUri(math_cache, k, outcome, images + 1)
                IN  /\ r.raised
                    /\ math_cache' = r.cache
                    /\ raised_key' = k
                    /\ last_match' = m
    /\ pc' = "raised"
    /\ UNCHANGED <<scope, calls, md_text, protectVars, subVars, images, invocations,
                   last_call, result, pdf_written>>

\* Pattern.sub finds no further span: the rest of the text is copied.
SubEnd(phase, next) ==
    /\ pc = phase
    /\ Search(phase, protected, pos).start = 0
    /\ protected' = acc \o SubSeq(protected, pos, Len(protected))
    /\ pos' = 1 /\ acc' = <<>>
    /\ last_match' = NoMatch
    /\ pc' = next
    /\ UNCHANGED <<scope, calls, md_text, protectVars, cacheVars, result, pdf_written>>

BlockReplace == SubReplace("block")
BlockRaise == SubRaise("block")
BlockEnd == SubEnd("block", "inline")
InlineReplace == SubReplace("inline")
InlineRaise == SubRaise("inline")
InlineEnd == SubEnd("inline", "restore")

\* return _restore_fenced_code(protected, blocks)
Restore ==
    /\ pc = "restore"
    /\ result' = RestoreFencedCode(protected, blocks)
    /\ pc' = "rendered"
    /\ UNCHANGED <<scope, calls, md_text, protectVars, subVars, cacheVars,
                   last_match, pdf_written>>

\* markdown.markdown(md_content, ...) and HTML(...).write_pdf(output_file)
WritePdf ==
    /\ pc = "rendered"
    /\ pdf_written' = TRUE
    /\ pc' = "done"
    /\ UNCHANGED <<scope, calls, md_text, protectVars, subVars, cacheVars,
                   last_match, result>>

Next ==
    \/ Start
    \/ ProtectOpen
    \/ ProtectPass
    \/ ProtectInterior
    \/ ProtectClose
    \/ ProtectEnd
    \/ BlockReplace
    \/ BlockRaise
    \/ BlockEnd
    \/ InlineReplace
    \/ InlineRaise
    \/ InlineEnd
    \/ Restore
    \/ WritePdf

Spec == Init /\ [][Next]_vars
SpecProcess == InitProcess /\ [][Next]_vars

\* ------------------------------------------------------------- properties
IsPlaceholder(c) == \E n \in 0..Len(lines) : c = Placeholder(n)
HasPlaceholder(text) == \E i \in 1..Len(text) : IsPlaceholder(text[i])

IsSuffix(s, text) ==
    Len(s) <= Len(text) /\ SubSeq(text, Len(text) - Len(s) + 1, Len(text)) = s

Finished == pc \in {"rendered", "done"}

\* The first non-blank character of the line is the fence symbol m.
StartsWithSymbol(line, m) ==
    \E i \in 1..Len(line) :
        /\ line[i] = m
        /\ \A j \in 1..(i - 1) : line[j] \in Whitespace

OpensFence(line) == StartsWithSymbol(line, BT) \/ StartsWithSymbol(line, TL)

\* lines[s..e] is a closed fence: an opening line of symbol m, the first later
\* line that starts with m, and between them no line that does.
ClosedFenceAt(ls, s, e) ==
    /\ 1 <= s /\ s < e /\ e <= Len(ls)
    /\ \E m \in {BT, TL} :
        /\ StartsWithSymbol(ls[s], m)
        /\ StartsWithSymbol(ls[e], m)
        /\ \A j \in (s + 1)..(e - 1) : ~StartsWithSymbol(ls[j], m)

\* The whole text is one closed fenced block.
OneClosedFence(text) ==
    ClosedFenceAt(SplitLines(text), 1, Len(SplitLines(text)))

FenceFree(text) ==
    \A i \in 1..Len(SplitLines(text)) : ~OpensFence(SplitLines(text)[i])

AllDollarsEscaped(text) ==
    \A i \in 1..Len(text) : text[i] = DOLLAR => (i > 1 /\ text[i - 1] = BACKSLASH)

IsBlockOpen(c) == \E n \in 1..images : c = BlockOpen(Uri(n))
IsInlineOpen(c) == \E n \in 1..images : c = InlineOpen(Uri(n))

\* Position i of the text lies in the markup generated for a block span.
InsideBlockMarkup(text, i) ==
    \E p \in 1..(i - 1) :
        /\ IsBlockOpen(text[p])
        /\ \A q \in (p + 1)..(i - 1) : text[q] # BlockClose

\* A span was replaced by the last step of the pass now running.
Replaced(phase) == pc = phase /\ last_match.start # 0

\* C1. Fence round trip: restoring the output of _protect_fenced_code, with no
\* math substitution in between, gives back the document character for character.
FenceRoundTrip ==
    pc = "block" => RestoreFencedCode(protected, blocks) = md_text

\* C2. Code immunity: a document that is one closed fenced block comes out of
\* _render_math_in_markdown identical to the input, and the renderer is never invoked.
CodeImmunity ==
    OneClosedFence(md_text) =>
        /\ pc # "raised"
        /\ DOMAIN invocations = {}
        /\ (Finished => result = md_text)

\* C3. Masked code is never touched by math substitution: no span matched by the
\* block or the inline pass contains a placeholder token, and the renderer is never
\* called with an expression that includes a placeholder.
MaskedCodeUntouched ==
    /\ (pc \in {"block", "inline", "raised"} /\ last_match.start # 0) =>
           ~HasPlaceholder(SubSeq(protected, last_match.start, last_match.end))
    /\ \A k \in DOMAIN invocations \cup {raised_key} : ~HasPlaceholder(k[1])

\* C4. Unterminated fence: when the document ends inside an open fence, the output
\* of the full transform holds the lines of that fence unchanged and no placeholder.
UnterminatedFenceIntact ==
    (Finished /\ in_fence) =>
        /\ IsSuffix(Join(buf), result)
        /\ ~HasPlaceholder(result)

\* C6. Block before inline: a "$$expr$$" span becomes exactly one block-level image,
\* and the inline pass matches nothing inside that span or inside its markup.
BlockPrecedence ==
    /\ Replaced("inline") => ~InsideBlockMarkup(protected, last_match.start)
    /\ Finished =>
          \A i \in 1..Len(result) :
              IsInlineOpen(result[i]) => ~InsideBlockMarkup(result, i)
    /\ (pc = "done" /\ md_text = <<DOLLAR, DOLLAR, "a", DOLLAR, DOLLAR>>) =>
          result = Markup("block", Uri(1), <<"a">>)

\* C8. Escaped dollar: in a fence-free text where a backslash precedes every "$",
\* neither pass matches anything, the renderer is not invoked, and the output of
\* the transform equals the input.
EscapedDollar ==
    (AllDollarsEscaped(md_text) /\ FenceFree(md_text)) =>
        /\ pc # "raised"
        /\ last_match.start = 0
        /\ DOMAIN invocations = {}
        /\ (pc = "inline" => protected = md_text)
        /\ (Finished => result = md_text)

EscapedDollarWitness ==
    /\ pc = "done"
    /\ AllDollarsEscaped(md_text) /\ FenceFree(md_text)
    /\ Cardinality({i \in 1..Len(md_text) : md_text[i] = DOLLAR}) >= 2
    /\ result = md_text

PlaceholderLines ==
    SelectSeq(out, LAMBDA l : Len(l) = 2 /\ IsPlaceholder(l[1]) /\ l[2] = NL)

CacheIdempotence ==
    /\ [](\A k \in DOMAIN invocations : invocations[k] <= 1)
    /\ [](last_call # NoCall =>
            /\ last_call.key \in DOMAIN math_cache
            /\ math_cache[last_call.key] = last_call.uri)
    /\ [][\A k \in DOMAIN math_cache :
            /\ k \in DOMAIN math_cache'
            /\ math_cache'[k] = math_cache[k]]_vars
    /\ [][(pc' = "raised" /\ pc # "raised") =>
            raised_key' \notin DOMAIN math_cache]_vars

\* A later conversion's first block span is served from the cache.
CacheIdempotenceWitness ==
    /\ calls >= 2
    /\ pc = "block"
    /\ last_match.start # 0
    /\ last_match = Search("block", protected, 1)
    /\ ~last_call.invoked
    /\ last_call.uri = math_cache[last_call.key]

\* C7. Render failure is fatal: once the renderer has raised, nothing is returned,
\* no PDF is written, the conversion takes no further step, and the cache has no
\* entry for the failing pair.
RenderFailureFatal ==
    /\ [](pc = "raised" =>
            /\ result = NoResult
            /\ ~pdf_written
            /\ raised_key \notin DOMAIN math_cache)
    /\ [][pc = "raised" => pc' \in {"raised", "protect"}]_vars
    /\ [][(pc' = "raised" /\ pc # "raised") => math_cache' = math_cache]_vars

\* The renderer raises after an earlier span of the same conversion was rendered
\* and cached.
RenderFailureFatalWitness ==
    /\ pc = "raised"
    /\ calls = 1
    /\ DOMAIN math_cache # {}

====
